---- MODULE Spec2Model ----
(***************************************************************************)
(* Supervisor (MicroServiceManager), runner (service-runner.js) and        *)
(* service contract (Service) of the micro-service manager.                *)
(*                                                                         *)
(* Time is counted in ticks of 1000 ms.  Timers are urgent: the clock does *)
(* not pass the deadline of an armed timer before that timer has run.      *)
(***************************************************************************)
EXTENDS Integers, Sequences, FiniteSets, TLC

\* ------------------------------------------------------------------ bounds
MaxEntries == 2      \* entry objects created by loadService
MaxForks == 2        \* runner processes forked
MaxTime == 4         \* last tick of the clock
MaxQueue == 1        \* messages waiting in one child's control channel
MaxRequests == 2     \* status queries sent
MaxCalls == 4        \* startService()/stopService() calls on the lone service
\* the scenarios' own limits
LifecycleEntries == 1
StopEntries == 1
UnloadEntries == 1
UnloadForks == 1
StatusRequests == 2
RunnerEntries == 1
RunnerForks == 1
RunnerRequests == 1
QueryEntries == 1
QueryForks == 1
QueryRequests == 1
HarnessEntries == 1
HarnessForks == 1
HarnessRequests == 1

\* --------------------------------------------------------- program constants
\* MicroServiceManager.defaultGracefulShutdownMs = 3000, in ticks
defaultGracefulShutdownMs == 3
\* getServiceStatus(name, timeoutMs = 2000), in ticks
timeoutMs == 2

\* ------------------------------------------------------------ value spaces
\* enum ServiceStatus
STARTING == "starting"
RUNNING == "running"
STOPPING == "stopping"
STOPPED == "stopped"
FAILED_TO_START == "failed while starting"
FAILED_TO_STOP == "failed while stopping"
ServiceStatus == {STARTING, RUNNING, STOPPING, STOPPED, FAILED_TO_START, FAILED_TO_STOP}

\* Service modules on disk: two modules whose classes report the same name.
ExistingPaths == {"/s/a.js", "/s/b.js"}
MissingPaths == {"/s/zz.js"}
Paths == ExistingPaths \cup MissingPaths

\* mutant of existsSync: every path is taken to exist
existsSyncAlways(p) == TRUE

\* fs.existsSync(path)
existsSync(p) == p \in ExistingPaths

\* path.split(/[\\\/]/).pop().replace(/\.js$|\.ts$/i, "")
Stem(p) ==
    CASE p = "/s/a.js" -> "a"
      [] p = "/s/b.js" -> "b"
      [] p = "/s/zz.js" -> "zz"
      [] OTHER -> p

\* svcInstance.name of the class exported by the module at p
ServiceName(p) ==
    CASE p = "/s/a.js" -> "X"
      [] p = "/s/b.js" -> "X"
      [] OTHER -> "?"

\* String.prototype.endsWith over the names the operations are called with
EndsWith(p, n) == n = "b.js" /\ p = "/s/b.js"

\* The names the public operations are called with
Names == {"a", "b", "X", "b.js"}

NoKey == ""
NoChild == 0
NoTime == -1
NoName == ""

EntryIds == 1..MaxEntries
ChildIds == 1..MaxForks
ReqIds == 1..MaxRequests

\* Math.random().toString(36).slice(2, 9): the suffixes a call can draw
RandomSuffixes == {"k3f", "x9a"}

\* `${Date.now()}-${Math.random().toString(36).slice(2, 9)}`
MakeId(t, suffix) == <<t, suffix>>

NoId == <<NoTime, "">>

\* ------------------------------------------------------- service contract
\* A Service instance; pendStart/pendStop count the startService()/
\* stopService() calls that have invoked the start()/stop() hook and not yet
\* gone on; notified counts the setStatus() calls, errors the console.error
\* calls, unhandled the hook promises that rejected with nobody awaiting them;
\* awaits: the class awaits its hooks (Service) or not (MicroService).
NewService(t) ==
    [status |-> STOPPED, createdAt |-> t, startTime |-> NoTime,
     timeHistory |-> <<>>, pendStart |-> 0, pendStop |-> 0,
     notified |-> 0, errors |-> 0, unhandled |-> 0, awaits |-> TRUE]

\* A MicroService instance (the class of src/MicroService.ts)
NewMicroService(t) == [NewService(t) EXCEPT !.awaits = FALSE]

NoService ==
    [status |-> STOPPED, createdAt |-> NoTime, startTime |-> NoTime,
     timeHistory |-> <<>>, pendStart |-> 0, pendStop |-> 0,
     notified |-> 0, errors |-> 0, unhandled |-> 0, awaits |-> TRUE]

\* mutant of startServiceEnter: no test of the status
startServiceAlways(s) ==
    [s EXCEPT !.status = STARTING, !.pendStart = @ + 1, !.notified = @ + 1]

\* startService up to the call of the start() hook
startServiceEnter(s) ==
    IF s.status = RUNNING
    THEN s
    ELSE [s EXCEPT !.status = STARTING, !.pendStart = @ + 1, !.notified = @ + 1]

\* startService after the hook: it returned (ok) or failed
startServiceResume(s, ok, t) ==
    IF ok
    THEN [s EXCEPT !.status = RUNNING, !.startTime = t, !.pendStart = @ - 1,
                   !.notified = @ + 1]
    ELSE [s EXCEPT !.status = FAILED_TO_START, !.pendStart = @ - 1,
                   !.notified = @ + 1, !.errors = @ + 1]

\* stopService up to the call of the stop() hook
stopServiceEnter(s) ==
    IF s.status # RUNNING
    THEN s
    ELSE [s EXCEPT !.status = STOPPING, !.pendStop = @ + 1, !.notified = @ + 1]

\* stopService after the hook
stopServiceResume(s, ok, t) ==
    IF ok
    THEN [s EXCEPT !.status = STOPPED,
                   !.timeHistory = Append(@, [start |-> s.startTime, stop |-> t]),
                   !.pendStop = @ - 1, !.notified = @ + 1]
    ELSE [s EXCEPT !.status = FAILED_TO_STOP, !.pendStop = @ - 1,
                   !.notified = @ + 1, !.errors = @ + 1]

\* what a hook of a MicroService can do when startService()/stopService()
\* calls it without awaiting: return a promise that fulfils or rejects, or
\* throw before returning one
HookOutcomes == {"fulfils", "rejects", "throws"}

\* MicroService: the call goes on as soon as the hook has returned; only a
\* throw reaches its catch
SyncOk(outcome) == outcome # "throws"

\* MicroService: the promise of a hook that rejects is dropped by the call
Dropped(s, outcome) ==
    IF outcome = "rejects" THEN [s EXCEPT !.unhandled = @ + 1] ELSE s

\* a MicroService is inside startService()/stopService(): the call runs to
\* its end before anything else does
InSyncCall(s) == ~s.awaits /\ (s.pendStart > 0 \/ s.pendStop > 0)

\* ---------------------------------------------------------------- registry
\* this.services is an insertion-ordered Map: a sequence of [key, ent] pairs,
\* ent the identity of the entry object stored under key.
MapHas(m, k) == \E i \in 1..Len(m) : m[i].key = k

MapGet(m, k) == m[CHOOSE i \in 1..Len(m) : m[i].key = k].ent

MapSet(m, k, e) ==
    IF MapHas(m, k)
    THEN [i \in 1..Len(m) |-> IF m[i].key = k THEN [key |-> k, ent |-> e] ELSE m[i]]
    ELSE Append(m, [key |-> k, ent |-> e])

MapDelete(m, k) == SelectSeq(m, LAMBDA x : x.key # k)

MapKeys(m) == {m[i].key : i \in 1..Len(m)}

MapEnts(m) == {m[i].ent : i \in 1..Len(m)}

NoEntry == [path |-> "", child |-> NoChild, startedAt |-> NoTime, registeredName |-> NoName]

\* mutant of EntryMatches: the file stem is not compared
EntryMatchesNoStem(v, nameOrPath) ==
    \/ v.registeredName = nameOrPath
    \/ EndsWith(v.path, nameOrPath)

\* one iteration test of the loop of findEntryKey
EntryMatches(v, nameOrPath) ==
    \/ v.registeredName = nameOrPath
    \/ EndsWith(v.path, nameOrPath)
    \/ Stem(v.path) = nameOrPath

\* MicroServiceManager.findEntryKey: exact key, else the first entry in map
\* order matched by registered name, path suffix or file stem
findEntryKey(m, objs, nameOrPath) ==
    IF MapHas(m, nameOrPath)
    THEN nameOrPath
    ELSE LET hits == {i \in 1..Len(m) : EntryMatches(objs[m[i].ent], nameOrPath)}
         IN IF hits = {} THEN NoKey
            ELSE m[CHOOSE i \in hits : \A j \in hits : i <= j].key

\* --------------------------------------------------------- derived metrics
RECURSIVE SumHistory(_)
\* the loop of Service.getTotalUptime over timeHistory
SumHistory(h) == IF h = <<>> THEN 0 ELSE (Head(h).stop - Head(h).start) + SumHistory(Tail(h))

\* Service.getTotalUptime at time t
getTotalUptime(s, t) ==
    SumHistory(s.timeHistory)
      + (IF s.status = RUNNING /\ s.startTime # NoTime THEN t - s.startTime ELSE 0)

\* Service.getTotalTime at time t
getTotalTime(s, t) == t - s.createdAt

\* mutant of getDowntime: the time the service is running now counts as down
getDowntimeOfHistory(s, t) == (t - s.createdAt) - SumHistory(s.timeHistory)

\* Service.getDowntime at time t
getDowntime(s, t) == (t - s.createdAt) - getTotalUptime(s, t)

\* MicroService.getTotalUptime: the loop over timeHistory only
MicroService_getTotalUptime(s) == SumHistory(s.timeHistory)

\* MicroService.getDowntime at time t: its own loop over timeHistory
MicroService_getDowntime(s, t) == (t - s.createdAt) - SumHistory(s.timeHistory)

\* instance.getTotalUptime() / getDowntime() / getTotalTime() by the class of s
TotalUptimeOf(s, t) ==
    IF s.awaits THEN getTotalUptime(s, t) ELSE MicroService_getTotalUptime(s)

DowntimeOf(s, t) ==
    IF s.awaits THEN getDowntime(s, t) ELSE MicroService_getDowntime(s, t)

TotalTimeOf(s, t) == getTotalTime(s, t)

\* mutant of StatusPayload: the status the service had when it was constructed
StatusPayloadAtBoot(path, s, t) ==
    [name |-> ServiceName(path), status |-> STOPPED, uptime |-> getTotalUptime(s, t),
     downtime |-> getDowntime(s, t), timeSinceLoad |-> getTotalTime(s, t)]

\* the payload the runner builds for a getStatus message
StatusPayload(path, s, t) ==
    [name |-> ServiceName(path), status |-> s.status, uptime |-> getTotalUptime(s, t),
     downtime |-> getDowntime(s, t), timeSinceLoad |-> getTotalTime(s, t)]

NoPayload ==
    [name |-> NoName, status |-> "", uptime |-> 0, downtime |-> 0, timeSinceLoad |-> 0]

\* ------------------------------------------------------------------- state
VARIABLES
    services,         \* MicroServiceManager.services: sequence of [key, ent]
    entries,          \* the entry objects: EntryIds -> [path, child, startedAt, registeredName]
    nEntries,         \* entry objects created so far
    pendingRequests,  \* MicroServiceManager.pendingRequests: [id, req] for the id
                      \* whose resolver settles the promise of call req
    requests,         \* the getServiceStatus promises (one per call) and their timeouts
    nRequests,        \* status queries sent so far
    timers,           \* armed grace-period timers of stopService/removeService
    children,         \* the forked runner processes
    nForks,           \* processes forked so far
    now,              \* Date.now(), in ticks
    svc,              \* a service instance driven directly (no runner)
    nCalls            \* calls made on svc

vars == <<services, entries, nEntries, pendingRequests, requests, nRequests,
          timers, children, nForks, now, svc, nCalls>>

supervisorVars == <<services, entries, nEntries, pendingRequests, requests, nRequests,
                    timers, children, nForks>>

NoChildRec ==
    [phase |-> "none", ent |-> 0, entryKey |-> NoKey, path |-> "", svc |-> NoService,
     inbox |-> <<>>, outbox |-> <<>>,
     \* how the process ended: "self" (process.exit) or "killed" (ChildProcess.kill)
     cause |-> "",
     \* an 'error' event was emitted on the ChildProcess object
     erred |-> FALSE]

\* a process whose exit event has been handled: none of its handlers runs again
Reaped(ch) == [NoChildRec EXCEPT !.phase = "reaped", !.cause = ch.cause, !.erred = ch.erred]

NoRequest ==
    [state |-> "none", id |-> NoId, child |-> NoChild, deadline |-> NoTime,
     timerDone |-> FALSE, payload |-> NoPayload,
     \* settles: calls of resolve/reject; removals: times the map entry made for
     \* this call was deleted or replaced; late: responses that found no entry
     settles |-> 0, removals |-> 0, late |-> 0]

Init ==
    /\ services = <<>>
    /\ entries = [e \in EntryIds |-> NoEntry]
    /\ nEntries = 0
    /\ pendingRequests = {}
    /\ requests = [r \in ReqIds |-> NoRequest]
    /\ nRequests = 0
    /\ timers = {}
    /\ children = [c \in ChildIds |-> NoChildRec]
    /\ nForks = 0
    /\ now = 0
    /\ svc = NewService(0)
    /\ nCalls = 0

\* the OS process of child c is running
Alive(c) == children[c].phase \in {"boot", "up"}

\* mutant of HasChild: the child handle is not consulted
HasChildNever(entry) == FALSE

\* `if (entry.child)`
HasChild(entry) == entry.child # NoChild

\* what child.send(msg) can do: the message is queued for a running process;
\* towards an exited process it is lost (the channel is still open), send()
\* throws, or send() returns false and the failure is emitted later as an
\* 'error' event of the ChildProcess object
SendOutcomes(c) == IF Alive(c) THEN {"delivered"} ELSE {"lost", "throws", "emits"}

\* the child processes after child.send(msg) to c had outcome o
AfterSend(c, o, msg) ==
    IF o = "delivered" THEN [children EXCEPT ![c].inbox = Append(@, msg)]
    ELSE IF o = "emits" THEN [children EXCEPT ![c].erred = TRUE]
    ELSE children

\* an 'error' event was emitted on a ChildProcess object: no listener is
\* registered for it, the exception is uncaught and the supervisor has ended
Crashed == \E c \in DOMAIN children : children[c].erred

Msg(type, id) == [type |-> type, id |-> id]

\* mutant of Killed: the signal handler awaits stopService() before it exits
KilledAwaitsStop(ch) ==
    IF ch.phase = "boot"
    THEN [ch EXCEPT !.phase = "dead", !.cause = "killed", !.inbox = <<>>]
    ELSE IF ch.phase = "up" /\ ch.svc.status = RUNNING
    THEN [ch EXCEPT !.svc = stopServiceEnter(@)]
    ELSE IF ch.phase = "up"
    THEN [ch EXCEPT !.phase = "dead", !.cause = "killed", !.inbox = <<>>]
    ELSE ch

\* ChildProcess.kill(): SIGTERM. A booted runner runs its SIGTERM handler
\* (stopService() then process.exit(0)); before that the signal ends the process.
Killed(ch) ==
    IF ch.phase = "boot"
    THEN [ch EXCEPT !.phase = "dead", !.cause = "killed", !.inbox = <<>>]
    ELSE IF ch.phase = "up"
    THEN [ch EXCEPT !.phase = "dead", !.cause = "killed", !.inbox = <<>>,
                    !.svc = stopServiceEnter(@)]
    ELSE ch

\* ------------------------------------------------------ supervisor: calls
\* MicroServiceManager.loadService(path)
loadService(path) ==
    /\ ~Crashed
    /\ IF ~existsSync(path)
       THEN UNCHANGED <<services, entries, nEntries>>
       ELSE /\ nEntries < MaxEntries
            /\ nEntries' = nEntries + 1
            /\ entries' = [entries EXCEPT ![nEntries + 1] = [NoEntry EXCEPT !.path = path]]
            /\ services' = MapSet(services, Stem(path), nEntries + 1)
    /\ UNCHANGED <<pendingRequests, requests, nRequests, timers, children, nForks, now,
                   svc, nCalls>>

\* mutant of Fork: the child reference is not stored in the entry
ForkWithoutHandle(e, entryKey) ==
    /\ nForks < MaxForks
    /\ nForks' = nForks + 1
    /\ children' = [children EXCEPT ![nForks + 1] =
                        [NoChildRec EXCEPT !.phase = "boot", !.ent = e,
                                           !.entryKey = entryKey, !.path = entries[e].path]]
    /\ entries' = [entries EXCEPT ![e].startedAt = now]

\* the fork branch of startService: a new runner process whose handlers close
\* over entry, entryKey
Fork(e, entryKey) ==
    /\ nForks < MaxForks
    /\ nForks' = nForks + 1
    /\ children' = [children EXCEPT ![nForks + 1] =
                        [NoChildRec EXCEPT !.phase = "boot", !.ent = e,
                                           !.entryKey = entryKey, !.path = entries[e].path]]
    /\ entries' = [entries EXCEPT ![e].child = nForks + 1, ![e].startedAt = now]

\* the live-child branch of startService: forward `start`
ForwardStart(e) ==
    LET c == entries[e].child IN
    /\ \E o \in SendOutcomes(c) :
         /\ o = "delivered" => Len(children[c].inbox) < MaxQueue
         /\ children' = AfterSend(c, o, Msg("start", NoId))
         /\ entries' = IF o = "throws" THEN entries
                       ELSE [entries EXCEPT ![e].startedAt = now]
    /\ UNCHANGED nForks

\* MicroServiceManager.startService(name)
startService(name) ==
    LET entryKey == findEntryKey(services, entries, name) IN
    /\ ~Crashed
    /\ IF entryKey = NoKey
       THEN UNCHANGED <<entries, children, nForks>>
       ELSE LET e == MapGet(services, entryKey) IN
            IF HasChild(entries[e]) THEN ForwardStart(e) ELSE Fork(e, entryKey)
    /\ UNCHANGED <<services, nEntries, pendingRequests, requests, nRequests, timers, now,
                   svc, nCalls>>

\* setTimeout(() => { entry.child && entry.child.kill() }, defaultGracefulShutdownMs)
GraceTimer(e, c, kind) ==
    [ent |-> e, deadline |-> now + defaultGracefulShutdownMs, armedFor |-> c, kind |-> kind]

\* the try/catch of stopService and removeService: send type, arm the timer;
\* if send throws, kill at once (the process is gone already)
SendThenTimer(e, type) ==
    LET c == entries[e].child IN
    \E o \in SendOutcomes(c) :
      /\ o = "delivered" => Len(children[c].inbox) < MaxQueue
      /\ o # "throws" => now + defaultGracefulShutdownMs <= MaxTime
      /\ children' =
           IF o = "throws"
           THEN [children EXCEPT ![c] = Killed(@)]
           ELSE AfterSend(c, o, Msg(type, NoId))
      /\ timers' = IF o = "throws" THEN timers ELSE timers \cup {GraceTimer(e, c, type)}

\* mutant of NothingToStop: the grace timer is armed although there is no child
NothingToStopArmsTimer(e) ==
    /\ children' = children
    /\ timers' = timers \cup {GraceTimer(e, NoChild, "stop")}

\* stopService past `if (entry.child)`: console.warn and return
NothingToStop(e) == UNCHANGED <<children, timers>>

\* MicroServiceManager.stopService(name)
stopService(name) ==
    LET entryKey == findEntryKey(services, entries, name) IN
    /\ ~Crashed
    /\ IF entryKey = NoKey
       THEN UNCHANGED <<children, timers>>
       ELSE LET e == MapGet(services, entryKey) IN
            IF HasChild(entries[e]) THEN SendThenTimer(e, "stop")
            ELSE NothingToStop(e)
    /\ UNCHANGED <<services, entries, nEntries, pendingRequests, requests, nRequests,
                   nForks, now, svc, nCalls>>

\* MicroServiceManager.removeService(name)
removeService(name) ==
    LET entryKey == findEntryKey(services, entries, name) IN
    /\ ~Crashed
    /\ IF entryKey = NoKey
       THEN UNCHANGED <<services, children, timers>>
       ELSE LET e == MapGet(services, entryKey) IN
            /\ IF HasChild(entries[e]) THEN SendThenTimer(e, "shutdown")
               ELSE UNCHANGED <<children, timers>>
            /\ services' = MapDelete(services, entryKey)
    /\ UNCHANGED <<entries, nEntries, pendingRequests, requests, nRequests,
                   nForks, now, svc, nCalls>>

\* mutant of TimerTarget: the callback looks the entry up in the registry
TimerTargetViaRegistry(t) ==
    IF t.ent \in MapEnts(services) THEN entries[t.ent].child ELSE NoChild

\* `entry.child` as the timer callback reads it: the captured entry object
TimerTarget(t) == entries[t.ent].child

\* the callback of a grace-period timer: kill whatever entry.child is now
graceTimeout(t) ==
    /\ ~Crashed
    /\ t \in timers
    /\ t.deadline <= now
    /\ timers' = timers \ {t}
    /\ LET target == TimerTarget(t) IN
       children' = IF target = NoChild THEN children
                   ELSE [children EXCEPT ![target] = Killed(@)]
    /\ UNCHANGED <<services, entries, nEntries, pendingRequests, requests, nRequests,
                   nForks, now, svc, nCalls>>

\* ----------------------------------------------------- request correlator
\* this.pendingRequests.has(id)
PendHas(pend, id) == \E p \in pend : p.id = id

\* the call whose resolver this.pendingRequests.get(id) returns
PendGet(pend, id) == (CHOOSE p \in pend : p.id = id).req

\* this.pendingRequests.set(id, resolver of call r): an entry under id is replaced
PendSet(pend, id, r) == {p \in pend : p.id # id} \cup {[id |-> id, req |-> r]}

\* this.pendingRequests.delete(id)
PendDelete(pend, id) == {p \in pend : p.id # id}

\* the map entry under id, if any, goes: its call's removals is counted
CountRemoval(reqs, pend, id) ==
    IF PendHas(pend, id)
    THEN [reqs EXCEPT ![PendGet(pend, id)].removals = @ + 1]
    ELSE reqs

\* the resolver stored for call r: delete the id, resolve(payload)
Resolver(reqs, r, payload) ==
    [reqs EXCEPT ![r].state = IF @ = "pending" THEN "resolved" ELSE @,
                 ![r].payload = IF reqs[r].state = "pending" THEN payload ELSE @,
                 ![r].settles = @ + 1]

\* the ids left in pendingRequests after the resolver stored under id ran
ResolverDeletes(pend, id) == PendDelete(pend, id)

\* mutant of TimeoutApplies: the timeout rejects without looking at the map
TimeoutAppliesAlways(pend, id) == TRUE

\* the test of the timeout callback: `if (this.pendingRequests.has(id))`
TimeoutApplies(pend, id) == PendHas(pend, id)

\* MicroServiceManager.getServiceStatus(name, timeoutMs) on an entry with a
\* child handle: call r draws its id, stores its resolver, sends, arms the timeout
SendGetStatus(e) ==
    LET c == entries[e].child
        r == nRequests + 1
    IN
    /\ nRequests < MaxRequests
    /\ nRequests' = r
    /\ \E suffix \in RandomSuffixes, o \in SendOutcomes(c) :
         LET id == MakeId(now, suffix)
             stored == PendSet(pendingRequests, id, r)
             counted == CountRemoval(requests, pendingRequests, id)
         IN
         /\ o = "delivered" => Len(children[c].inbox) < MaxQueue
         /\ o # "throws" => now + timeoutMs <= MaxTime
         /\ children' = AfterSend(c, o, Msg("getStatus", id))
         /\ IF o = "throws"
            THEN /\ pendingRequests' = PendDelete(stored, id)
                 /\ requests' = [counted EXCEPT ![r] =
                        [NoRequest EXCEPT !.state = "rejected", !.id = id, !.child = c,
                                          !.settles = 1, !.removals = 1]]
            ELSE /\ pendingRequests' = stored
                 /\ requests' = [counted EXCEPT ![r] =
                        [NoRequest EXCEPT !.state = "pending", !.id = id, !.child = c,
                                          !.deadline = now + timeoutMs]]

\* mutant of SettleAtOnce: every early return rejects
SettleAtOnceRejecting(state) ==
    /\ nRequests < MaxRequests
    /\ nRequests' = nRequests + 1
    /\ requests' = [requests EXCEPT ![nRequests + 1] =
                        [NoRequest EXCEPT !.state = "notRegistered", !.settles = 1]]
    /\ UNCHANGED <<pendingRequests, children>>

\* the early returns of getServiceStatus: the promise of this call is settled
\* before anything is sent (`return reject(...)`, `return resolve(null)`)
SettleAtOnce(state) ==
    /\ nRequests < MaxRequests
    /\ nRequests' = nRequests + 1
    /\ requests' = [requests EXCEPT ![nRequests + 1] =
                        [NoRequest EXCEPT !.state = state, !.settles = 1]]
    /\ UNCHANGED <<pendingRequests, children>>

\* MicroServiceManager.getServiceStatus(name)
getServiceStatus(name) ==
    LET entryKey == findEntryKey(services, entries, name) IN
    /\ ~Crashed
    /\ IF entryKey = NoKey
       THEN SettleAtOnce("notRegistered")
       ELSE LET e == MapGet(services, entryKey) IN
            IF HasChild(entries[e]) THEN SendGetStatus(e)
            ELSE SettleAtOnce("notRunning")
    /\ UNCHANGED <<services, entries, nEntries, timers, nForks, now, svc, nCalls>>

\* the timeout callback of call r of getServiceStatus
statusTimeout(r) ==
    LET id == requests[r].id IN
    /\ ~Crashed
    /\ requests[r].deadline # NoTime
    /\ ~requests[r].timerDone
    /\ requests[r].deadline <= now
    /\ IF TimeoutApplies(pendingRequests, id)
       THEN /\ pendingRequests' = PendDelete(pendingRequests, id)
            /\ requests' = [CountRemoval(requests, pendingRequests, id) EXCEPT
                   ![r].timerDone = TRUE,
                   ![r].state = IF @ = "pending" THEN "rejected" ELSE @,
                   ![r].settles = @ + 1]
       ELSE /\ pendingRequests' = pendingRequests
            /\ requests' = [requests EXCEPT ![r].timerDone = TRUE]
    /\ UNCHANGED <<services, entries, nEntries, nRequests, timers, children, nForks, now,
                   svc, nCalls>>

\* -------------------------------------------- supervisor: child event handlers
UpMsg(type, name, id, payload) == [type |-> type, name |-> name, id |-> id, payload |-> payload]

\* mutant of NameTaken: the register handler re-keys without looking
NameTakenNever(m, realName) == FALSE

\* the test of the register handler: `if (this.services.has(realName))` keeps the key
NameTaken(m, realName) == MapHas(m, realName)

\* mutant of onRegister: registeredName is written also when the key is kept
onRegisterAlwaysNames(c, realName) ==
    LET e == children[c].ent
        entryKey == children[c].entryKey
    IN
    /\ IF NameTaken(services, realName)
       THEN UNCHANGED services
       ELSE services' = MapDelete(MapSet(services, realName, e), entryKey)
    /\ entries' = [entries EXCEPT ![e].registeredName = realName]
    /\ UNCHANGED <<pendingRequests, requests>>

\* the register branch of child.on("message"), with the entry and entryKey
\* captured when the child was forked
onRegister(c, realName) ==
    LET e == children[c].ent
        entryKey == children[c].entryKey
    IN
    /\ IF NameTaken(services, realName)
       THEN UNCHANGED <<services, entries>>
       ELSE /\ services' = MapDelete(MapSet(services, realName, e), entryKey)
            /\ entries' = [entries EXCEPT ![e].registeredName = realName]
    /\ UNCHANGED <<pendingRequests, requests>>

\* the statusResponse branch of child.on("message"):
\* `const cb = this.pendingRequests.get(id); if (cb) cb(msg.payload)`
onStatusResponse(id, payload) ==
    /\ IF PendHas(pendingRequests, id)
       THEN /\ requests' = Resolver(CountRemoval(requests, pendingRequests, id),
                                    PendGet(pendingRequests, id), payload)
            /\ pendingRequests' = ResolverDeletes(pendingRequests, id)
       ELSE /\ requests' = [r \in ReqIds |->
                               IF requests[r].id = id
                               THEN [requests[r] EXCEPT !.late = @ + 1]
                               ELSE requests[r]]
            /\ UNCHANGED pendingRequests
    /\ UNCHANGED <<services, entries>>

\* child.on("message"): the supervisor takes the next message of child c
onMessage(c) ==
    /\ ~Crashed
    /\ children[c].outbox # <<>>
    /\ LET msg == Head(children[c].outbox) IN
       IF msg.type = "register" THEN onRegister(c, msg.name)
       ELSE onStatusResponse(msg.id, msg.payload)
    /\ children' = [children EXCEPT ![c].outbox = Tail(@)]
    /\ UNCHANGED <<nEntries, nRequests, timers, nForks, now, svc, nCalls>>

\* mutant of ExitOwner: the entry is looked up under the key captured at fork
ExitOwnerByKey(c) ==
    IF MapHas(services, children[c].entryKey)
    THEN MapGet(services, children[c].entryKey)
    ELSE 0

\* the loop of the exit handler: the first entry in map order whose child is c
\* (0: none)
ExitOwner(c) ==
    LET hits == {i \in 1..Len(services) : entries[services[i].ent].child = c} IN
    IF hits = {} THEN 0
    ELSE services[CHOOSE i \in hits : \A j \in hits : i <= j].ent

\* mutant of onExit: the exit handler clears the child reference only
onExitKeepsStartedAt(c) ==
    /\ ~Crashed
    /\ children[c].phase = "dead"
    /\ children[c].outbox = <<>>
    /\ children' = [children EXCEPT ![c] = Reaped(@)]
    /\ LET v == ExitOwner(c) IN
       IF v = 0
       THEN entries' = entries
       ELSE entries' = [entries EXCEPT ![v].child = NoChild]
    /\ UNCHANGED <<services, nEntries, pendingRequests, requests, nRequests, timers,
                   nForks, now, svc, nCalls>>

\* child.on("exit"): clear child and startedAt of the entry found by the loop.
\* The event follows the messages the child had sent.
onExit(c) ==
    /\ ~Crashed
    /\ children[c].phase = "dead"
    /\ children[c].outbox = <<>>
    /\ children' = [children EXCEPT ![c] = Reaped(@)]
    /\ LET v == ExitOwner(c) IN
       IF v = 0
       THEN entries' = entries
       ELSE entries' = [entries EXCEPT ![v].child = NoChild, ![v].startedAt = NoTime]
    /\ UNCHANGED <<services, nEntries, pendingRequests, requests, nRequests, timers,
                   nForks, now, svc, nCalls>>

\* ------------------------------------------------------------------ runner
\* mutant of run: the runner goes on without sending `register`
runWithoutRegister(c) ==
    /\ children[c].phase = "boot"
    /\ children' = [children EXCEPT
           ![c].phase = "up",
           ![c].svc = startServiceEnter(NewService(now))]
    /\ UNCHANGED <<services, entries, nEntries, pendingRequests, requests, nRequests,
                   timers, nForks, now, svc, nCalls>>

\* run(): the module is imported, the service instantiated, `register` sent,
\* the handlers installed and startService() entered
run(c) ==
    /\ children[c].phase = "boot"
    /\ children' = [children EXCEPT
           ![c].phase = "up",
           ![c].svc = startServiceEnter(NewService(now)),
           ![c].outbox = Append(@, UpMsg("register", ServiceName(children[c].path), NoId, NoPayload))]
    /\ UNCHANGED <<services, entries, nEntries, pendingRequests, requests, nRequests,
                   timers, nForks, now, svc, nCalls>>

\* run(): the import or the constructor throws: process.exit(1)
runFails(c) ==
    /\ children[c].phase = "boot"
    /\ children' = [children EXCEPT ![c].phase = "dead", ![c].cause = "self",
                                    ![c].inbox = <<>>]
    /\ UNCHANGED <<services, entries, nEntries, pendingRequests, requests, nRequests,
                   timers, nForks, now, svc, nCalls>>

\* a control message reaches the process while run() still awaits the import:
\* process.on("message") is not installed yet and the message is gone
runnerMisses(c) ==
    /\ children[c].phase = "boot"
    /\ children[c].inbox # <<>>
    /\ children' = [children EXCEPT ![c].inbox = Tail(@)]
    /\ UNCHANGED <<services, entries, nEntries, pendingRequests, requests, nRequests,
                   timers, nForks, now, svc, nCalls>>

\* what the runner does with one control message
\* (`stop`: stopService() then process.exit(0); `getStatus`: reply; others: nothing)
Handle(ch, msg, t) ==
    IF msg.type = "stop"
    THEN [ch EXCEPT !.svc = stopServiceEnter(@), !.phase = "dead", !.cause = "self",
                    !.inbox = <<>>]
    ELSE IF msg.type = "getStatus"
    THEN [ch EXCEPT !.inbox = Tail(@),
                    !.outbox = Append(@, UpMsg("statusResponse", NoName, msg.id,
                                               StatusPayload(ch.path, ch.svc, t)))]
    ELSE [ch EXCEPT !.inbox = Tail(@)]

\* process.on("message") of the runner
runnerMessage(c) ==
    /\ children[c].phase = "up"
    /\ children[c].inbox # <<>>
    /\ children' = [children EXCEPT ![c] = Handle(@, Head(children[c].inbox), now)]
    /\ UNCHANGED <<services, entries, nEntries, pendingRequests, requests, nRequests,
                   timers, nForks, now, svc, nCalls>>

\* the hosted service's start() hook settles; startService() resumes
hookStartDone(c, ok) ==
    /\ children[c].phase = "up"
    /\ children[c].svc.pendStart > 0
    /\ children' = [children EXCEPT ![c].svc = startServiceResume(@, ok, now)]
    /\ UNCHANGED <<services, entries, nEntries, pendingRequests, requests, nRequests,
                   timers, nForks, now, svc, nCalls>>

\* the hosted service stops itself (ExpressService GET /stop: this.stopService())
selfStop(c) ==
    /\ children[c].phase = "up"
    /\ children[c].svc.status = RUNNING
    /\ children' = [children EXCEPT ![c].svc = stopServiceEnter(@)]
    /\ UNCHANGED <<services, entries, nEntries, pendingRequests, requests, nRequests,
                   timers, nForks, now, svc, nCalls>>

\* the hosted service's stop() hook settles; stopService() resumes
hookStopDone(c, ok) ==
    /\ children[c].phase = "up"
    /\ children[c].svc.pendStop > 0
    /\ children' = [children EXCEPT ![c].svc = stopServiceResume(@, ok, now)]
    /\ UNCHANGED <<services, entries, nEntries, pendingRequests, requests, nRequests,
                   timers, nForks, now, svc, nCalls>>

\* ------------------------------------------------------------------- clock
TimerDue ==
    \/ \E t \in timers : t.deadline <= now
    \/ \E r \in ReqIds : /\ requests[r].deadline # NoTime
                         /\ ~requests[r].timerDone
                         /\ requests[r].deadline <= now

Tick ==
    /\ now < MaxTime
    /\ ~TimerDue
    /\ now' = now + 1
    /\ UNCHANGED <<supervisorVars, svc, nCalls>>

\* ------------------------------------------- the service driven directly
\* `new test()`: the instance driven is a MicroService
newMicroService ==
    /\ nCalls = 0
    /\ svc.awaits
    /\ svc' = NewMicroService(now)
    /\ UNCHANGED <<supervisorVars, now, nCalls>>

\* a caller invokes svc.startService()
callStartService ==
    /\ nCalls < MaxCalls
    /\ ~InSyncCall(svc)
    /\ nCalls' = nCalls + 1
    /\ svc' = startServiceEnter(svc)
    /\ UNCHANGED <<supervisorVars, now>>

\* a caller invokes svc.stopService()
callStopService ==
    /\ nCalls < MaxCalls
    /\ ~InSyncCall(svc)
    /\ nCalls' = nCalls + 1
    /\ svc' = stopServiceEnter(svc)
    /\ UNCHANGED <<supervisorVars, now>>

\* Service: svc's start() hook settles and one suspended startService() resumes
startSettles(ok) ==
    /\ svc.awaits
    /\ svc.pendStart > 0
    /\ svc' = startServiceResume(svc, ok, now)
    /\ UNCHANGED <<supervisorVars, now, nCalls>>

\* Service: svc's stop() hook settles and one suspended stopService() resumes
stopSettles(ok) ==
    /\ svc.awaits
    /\ svc.pendStop > 0
    /\ svc' = stopServiceResume(svc, ok, now)
    /\ UNCHANGED <<supervisorVars, now, nCalls>>

\* MicroService: `this.start()` has returned or thrown; startService() ends
startReturns(outcome) ==
    /\ ~svc.awaits
    /\ svc.pendStart > 0
    /\ svc' = Dropped(startServiceResume(svc, SyncOk(outcome), now), outcome)
    /\ UNCHANGED <<supervisorVars, now, nCalls>>

\* MicroService: `this.stop()` has returned or thrown; stopService() ends
stopReturns(outcome) ==
    /\ ~svc.awaits
    /\ svc.pendStop > 0
    /\ svc' = Dropped(stopServiceResume(svc, SyncOk(outcome), now), outcome)
    /\ UNCHANGED <<supervisorVars, now, nCalls>>

\* ----------------------------------------------------------- specification
\* The whole system.
Next ==
    \/ \E p \in Paths : loadService(p)
    \/ \E n \in Names : startService(n)
    \/ \E n \in Names : stopService(n)
    \/ \E n \in Names : removeService(n)
    \/ \E n \in Names : getServiceStatus(n)
    \/ \E t \in timers : graceTimeout(t)
    \/ \E r \in ReqIds : statusTimeout(r)
    \/ \E c \in ChildIds : onMessage(c)
    \/ \E c \in ChildIds : onExit(c)
    \/ \E c \in ChildIds : run(c)
    \/ \E c \in ChildIds : runFails(c)
    \/ \E c \in ChildIds : runnerMessage(c)
    \/ \E c \in ChildIds : runnerMisses(c)
    \/ \E c \in ChildIds, ok \in BOOLEAN : hookStartDone(c, ok)
    \/ \E c \in ChildIds : selfStop(c)
    \/ \E c \in ChildIds, ok \in BOOLEAN : hookStopDone(c, ok)
    \/ callStartService
    \/ callStopService
    \/ \E ok \in BOOLEAN : startSettles(ok)
    \/ \E ok \in BOOLEAN : stopSettles(ok)
    \/ newMicroService
    \/ \E o \in HookOutcomes : startReturns(o)
    \/ \E o \in HookOutcomes : stopReturns(o)
    \/ Tick

Spec == Init /\ [][Next]_vars

\* The registry: every module, every name, all within one tick (no grace
\* period runs out) and with hooks that have not settled yet.
NextRegistry ==
    \/ \E p \in Paths : loadService(p)
    \/ \E n \in Names : startService(n)
    \/ \E n \in Names : stopService(n)
    \/ \E n \in Names : removeService(n)
    \/ \E c \in ChildIds : onMessage(c)
    \/ \E c \in ChildIds : onExit(c)
    \/ \E c \in ChildIds : run(c)
    \/ \E c \in ChildIds : runFails(c)
    \/ \E c \in ChildIds : runnerMessage(c)
    \/ \E c \in ChildIds : runnerMisses(c)

SpecRegistry == Init /\ [][NextRegistry]_vars

\* One module (its entry re-keyed to "X" by the runner), called by key and by
\* registered name.
OnePath == {"/s/a.js"}
OneNames == {"a", "X"}

\* The life of one entry and its runners, all within one tick.
NextLifecycle ==
    \/ \E p \in OnePath : loadService(p) /\ nEntries' <= LifecycleEntries
    \/ \E n \in OneNames : startService(n)
    \/ \E n \in OneNames : stopService(n)
    \/ \E n \in OneNames : removeService(n)
    \/ \E c \in ChildIds : onMessage(c)
    \/ \E c \in ChildIds : onExit(c)
    \/ \E c \in ChildIds : run(c)
    \/ \E c \in ChildIds : runFails(c)
    \/ \E c \in ChildIds : runnerMessage(c)
    \/ \E c \in ChildIds : runnerMisses(c)

SpecLifecycle == Init /\ [][NextLifecycle]_vars

\* Stopping one module's runners against the clock.
NextStop ==
    \/ \E p \in OnePath : loadService(p) /\ nEntries' <= StopEntries
    \/ \E n \in OneNames : startService(n)
    \/ \E n \in OneNames : stopService(n)
    \/ \E t \in timers : graceTimeout(t)
    \/ \E c \in ChildIds : onMessage(c)
    \/ \E c \in ChildIds : onExit(c)
    \/ \E c \in ChildIds : run(c)
    \/ \E c \in ChildIds : runnerMessage(c)
    \/ \E c \in ChildIds : runnerMisses(c)
    \/ Tick

SpecStop == Init /\ [][NextStop]_vars

\* Unloading one module against the clock.
NextUnload ==
    \/ \E p \in OnePath : loadService(p) /\ nEntries' <= UnloadEntries
    \/ \E n \in OneNames : startService(n) /\ nForks' <= UnloadForks
    \/ \E n \in OneNames : removeService(n)
    \/ \E t \in timers : graceTimeout(t)
    \/ \E c \in ChildIds : onMessage(c)
    \/ \E c \in ChildIds : onExit(c)
    \/ \E c \in ChildIds : run(c)
    \/ \E c \in ChildIds : runFails(c)
    \/ \E c \in ChildIds : runnerMessage(c)
    \/ \E c \in ChildIds : runnerMisses(c)
    \/ Tick

SpecUnload == Init /\ [][NextUnload]_vars

\* Status queries to the one runner of one module, loaded once, against the clock.
NextStatus ==
    \/ \E p \in OnePath : loadService(p) /\ services = <<>>
    \/ \E n \in OneNames : startService(n)
    \/ \E n \in OneNames : getServiceStatus(n) /\ nRequests' <= StatusRequests
                                                /\ children' # children
    \/ \E r \in ReqIds : statusTimeout(r)
    \/ \E c \in ChildIds : onMessage(c)
    \/ \E c \in ChildIds : run(c)
    \/ \E c \in ChildIds : runnerMessage(c)
    \/ \E c \in ChildIds : runnerMisses(c)
    \/ \E c \in ChildIds, ok \in BOOLEAN : hookStartDone(c, ok)
    \/ Tick

SpecStatus == Init /\ [][NextStatus]_vars

\* One runner and its hosted service, all within one tick.
NextRunner ==
    \/ \E p \in OnePath : loadService(p) /\ nEntries' <= RunnerEntries
    \/ \E n \in OneNames : startService(n) /\ nForks' <= RunnerForks
    \/ \E n \in OneNames : stopService(n)
    \/ \E n \in OneNames : removeService(n)
    \/ \E n \in OneNames : getServiceStatus(n) /\ nRequests' <= RunnerRequests
    \/ \E c \in ChildIds : onMessage(c)
    \/ \E c \in ChildIds : onExit(c)
    \/ \E c \in ChildIds : run(c)
    \/ \E c \in ChildIds : runnerMessage(c)
    \/ \E c \in ChildIds : runnerMisses(c)
    \/ \E c \in ChildIds, ok \in BOOLEAN : hookStartDone(c, ok)
    \/ \E c \in ChildIds : selfStop(c)
    \/ \E c \in ChildIds, ok \in BOOLEAN : hookStopDone(c, ok)

SpecRunner == Init /\ [][NextRunner]_vars

\* Status queries over the life of one entry (not loaded, no child, child,
\* child gone), against the clock.
NextQuery ==
    \/ \E p \in OnePath : loadService(p) /\ nEntries' <= QueryEntries
    \/ \E n \in OneNames : startService(n) /\ nForks' <= QueryForks
    \/ \E n \in OneNames : getServiceStatus(n) /\ nRequests' <= QueryRequests
    \/ \E r \in ReqIds : statusTimeout(r)
    \/ \E c \in ChildIds : onMessage(c)
    \/ \E c \in ChildIds : onExit(c)
    \/ \E c \in ChildIds : run(c)
    \/ \E c \in ChildIds : runFails(c)
    \/ \E c \in ChildIds : runnerMessage(c)
    \/ \E c \in ChildIds : runnerMisses(c)
    \/ Tick

SpecQuery == Init /\ [][NextQuery]_vars

\* `manager.listServices()` before the start: the keys given by loadService
ListedKeys == {Stem(p) : p \in OnePath}

\* The test harness: one module loaded, then started, queried and stopped by
\* the key listed before the start, against the clock.
NextHarness ==
    \/ \E p \in OnePath : loadService(p) /\ nEntries' <= HarnessEntries
    \/ \E k \in ListedKeys : startService(k) /\ nForks' <= HarnessForks
    \/ \E k \in ListedKeys : getServiceStatus(k) /\ nRequests' <= HarnessRequests
    \/ \E k \in ListedKeys : stopService(k)
    \/ \E r \in ReqIds : statusTimeout(r)
    \/ \E t \in timers : graceTimeout(t)
    \/ \E c \in ChildIds : onMessage(c)
    \/ \E c \in ChildIds : onExit(c)
    \/ \E c \in ChildIds : run(c)
    \/ \E c \in ChildIds : runnerMessage(c)
    \/ \E c \in ChildIds : runnerMisses(c)
    \/ \E c \in ChildIds, ok \in BOOLEAN : hookStartDone(c, ok)
    \/ Tick

SpecHarness == Init /\ [][NextHarness]_vars

\* The service contract alone, against the clock.
NextService ==
    \/ newMicroService
    \/ callStartService
    \/ callStopService
    \/ \E ok \in BOOLEAN : startSettles(ok)
    \/ \E ok \in BOOLEAN : stopSettles(ok)
    \/ \E o \in HookOutcomes : startReturns(o)
    \/ \E o \in HookOutcomes : stopReturns(o)
    \/ Tick

SpecService == Init /\ [][NextService]_vars

\* ------------------------------------------------------------- properties
\* the processes forked for entry object e that are running
LiveChildrenOf(e) == {c \in ChildIds : Alive(c) /\ children[c].ent = e}

\* C1: every entry has at most one running runner process, and a start on an
\* entry that has a child handle forks nothing and starts no process
C1_AtMostOneLiveChild ==
    /\ [](\A e \in EntryIds : Cardinality(LiveChildrenOf(e)) <= 1)
    /\ [][\A n \in OneNames :
            LET k == findEntryKey(services, entries, n) IN
            (startService(n) /\ k # NoKey /\ entries[MapGet(services, k)].child # NoChild)
               => /\ nForks' = nForks
                  /\ \A c \in ChildIds : children'[c].phase = children[c].phase]_vars

\* C1 witness: a second start reached a running child as a `start` message
C1_Witness ==
    \E c \in ChildIds :
        /\ Alive(c)
        /\ children[c].inbox # <<>>
        /\ Head(children[c].inbox).type = "start"
        /\ entries[children[c].ent].child = c

\* the call r has its resolver stored in pendingRequests
HasEntry(r) == \E p \in pendingRequests : p.req = r

\* C2: for every status query sent to a child, the map entry made for it is
\* removed at most once and its call settled at most once; the entry is there
\* exactly while the call is pending, it is gone once the deadline has passed,
\* a settled call had its entry removed once, and a response that finds no
\* entry leaves the call as the timeout left it
C2_RemovedExactlyOnce ==
    \A r \in ReqIds :
        requests[r].child # NoChild =>
            /\ requests[r].removals <= 1
            /\ requests[r].settles <= 1
            /\ HasEntry(r) <=> (requests[r].state = "pending")
            /\ requests[r].state = "pending" => requests[r].removals = 0
            /\ requests[r].state \in {"resolved", "rejected"} =>
                   requests[r].removals = 1 /\ requests[r].settles = 1
            /\ (requests[r].deadline # NoTime /\ now > requests[r].deadline) =>
                   ~HasEntry(r)
            /\ requests[r].late > 0 =>
                   requests[r].state = "rejected" /\ requests[r].payload = NoPayload

\* C2 witness: the timeout rejected the call and the response came afterwards
C2_Witness ==
    \E r \in ReqIds :
        /\ requests[r].state = "rejected"
        /\ requests[r].timerDone
        /\ requests[r].late = 1

\* C3: every status change of a service follows one of the six legal edges
\* (so no edge leaves FailedToStart or FailedToStop)
C3_LegalEdgesOnly ==
    [][LET LegalEdges ==
               {<<STOPPED, STARTING>>, <<STARTING, RUNNING>>, <<STARTING, FAILED_TO_START>>,
                <<RUNNING, STOPPING>>, <<STOPPING, STOPPED>>, <<STOPPING, FAILED_TO_STOP>>}
       IN svc'.status # svc.status => <<svc.status, svc'.status>> \in LegalEdges]_vars

\* C4: the timer of a stop whose child has exited on its own kills no process
C4_StaleTimerKillsNothing ==
    [][\A t \in timers :
          (graceTimeout(t) /\ t.kind = "stop" /\ children[t.armedFor].cause = "self")
             => \A c \in ChildIds : Alive(c) => children'[c].phase = children[c].phase]_vars

\* C5: a child that was sent a stop and is still running is killed by the
\* expiry of that stop's timer, it is not killed before a timer armed for it
\* is due, and once its exit event is handled no entry of the registry holds it
C5_KilledAtGraceOnly ==
    [][\A c \in ChildIds :
          /\ \A t \in timers :
                (graceTimeout(t) /\ t.kind = "stop" /\ t.armedFor = c /\ Alive(c))
                   => children'[c].cause = "killed"
          /\ (Alive(c) /\ children'[c].cause = "killed" /\ \E t \in timers : t.armedFor = c)
                => \E t \in timers : t.armedFor = c /\ t.deadline <= now
          /\ onExit(c) => \A i \in 1..Len(services') : entries'[services'[i].ent].child # c]_vars

\* C6: the runner handles `stop` by stopService() and stays alive
C6_StopKeepsRunnerAlive ==
    [][\A c \in ChildIds :
          (runnerMessage(c) /\ Head(children[c].inbox).type = "stop")
             => /\ children'[c].phase = "up"
                /\ children'[c].svc = stopServiceEnter(children[c].svc)]_vars

\* C7: the runner handles `start` by startService(): a stopped service of a
\* live runner becomes Starting
C7_StartMessageStarts ==
    [][\A c \in ChildIds :
          (runnerMessage(c) /\ Head(children[c].inbox).type = "start"
                            /\ children[c].svc.status = STOPPED)
             => children'[c].svc = startServiceEnter(children[c].svc)]_vars

\* C8: the runner handles `shutdown` by stopService() and then exits
C8_ShutdownStopsAndExits ==
    [][\A c \in ChildIds :
          (runnerMessage(c) /\ Head(children[c].inbox).type = "shutdown")
             => /\ children'[c].phase = "dead"
                /\ children'[c].svc = stopServiceEnter(children[c].svc)]_vars

\* C9: a register message leaves the number of entries unchanged and loses
\* no entry of the registry
C9_RegisterKeepsEntries ==
    [][\A c \in ChildIds :
          (onMessage(c) /\ Head(children[c].outbox).type = "register")
             => /\ Len(services') = Len(services)
                /\ MapEnts(services) \subseteq MapEnts(services')]_vars

\* C10: unload sends `shutdown` to a live child, arms the grace timer and
\* removes the entry in the same call; no armed timer is ever overdue, and
\* when the unload's timer has run the child it was armed for is gone
C10_UnloadRemovesAndEnds ==
    /\ [](\A t \in timers : now <= t.deadline)
    /\ [][/\ \A n \in OneNames :
               LET k == findEntryKey(services, entries, n) IN
               (removeService(n) /\ k # NoKey)
                  => /\ ~MapHas(services', k)
                     /\ LET c == entries[MapGet(services, k)].child IN
                        (c # NoChild /\ Alive(c))
                           => /\ children'[c].inbox =
                                     Append(children[c].inbox, Msg("shutdown", NoId))
                              /\ \E t \in timers' :
                                     /\ t.armedFor = c
                                     /\ t.deadline = now + defaultGracefulShutdownMs
          /\ \A t \in timers :
               (graceTimeout(t) /\ t.kind = "shutdown") => ~Alive(t.armedFor)']_vars

\* C10 witness: the runner of an unloaded entry was killed by the timer
C10_Witness ==
    \E c \in ChildIds :
        /\ children[c].phase = "dead"
        /\ children[c].cause = "killed"
        /\ children[c].ent \notin MapEnts(services)
        /\ now = defaultGracefulShutdownMs

C12_TimeoutRejectsAtDeadline ==
    \A r \in ReqIds :
        /\ requests[r].deadline # NoTime =>
              /\ requests[r].state = "rejected" =>
                     requests[r].timerDone /\ now >= requests[r].deadline
              /\ requests[r].timerDone => requests[r].state \in {"rejected", "resolved"}
              /\ requests[r].state # "notRunning"
        /\ requests[r].state = "notRunning" => requests[r].deadline = NoTime

\* C13: the ids of the outstanding status queries are pairwise distinct; a
\* statusResponse changes only a call whose id it echoes, and resolves it
\* with its own payload; a timeout settles only its own call
C13_IndependentIds ==
    /\ [](\A r1, r2 \in ReqIds :
            (r1 # r2 /\ requests[r1].state = "pending" /\ requests[r2].state = "pending")
               => requests[r1].id # requests[r2].id)
    /\ [][/\ \A c \in ChildIds :
               (onMessage(c) /\ Head(children[c].outbox).type = "statusResponse")
                  => \A r \in ReqIds :
                        requests'[r] # requests[r]
                           => /\ requests[r].id = Head(children[c].outbox).id
                              /\ requests'[r].state = "resolved"
                                    => requests'[r].payload = Head(children[c].outbox).payload
          /\ \A r \in ReqIds :
               statusTimeout(r)
                  => \A q \in ReqIds : requests'[q].state # requests[q].state => q = r]_vars

\* C14: the exit event of a child clears child and startedAt of the entry it
\* was forked for when that entry is in the registry, under whatever key; no
\* entry of the registry holds a process whose exit event was handled; and a
\* start on an entry without a handle forks a new runner
C14_ExitClearsHandle ==
    /\ [](\A i \in 1..Len(services) :
            LET ch == entries[services[i].ent].child IN
            ch # NoChild => children[ch].phase \in {"boot", "up", "dead"})
    /\ [][/\ \A c \in ChildIds :
               LET e == children[c].ent IN
               (onExit(c) /\ e \in MapEnts(services))
                  => /\ entries'[e].child = NoChild
                     /\ entries'[e].startedAt = NoTime
          /\ \A n \in OneNames :
               LET k == findEntryKey(services, entries, n) IN
               (startService(n) /\ k # NoKey /\ entries[MapGet(services, k)].child = NoChild)
                  => /\ nForks' = nForks + 1
                     /\ children'[nForks'].phase = "boot"
                     /\ entries'[MapGet(services, k)].child = nForks'
                     /\ \A c \in ChildIds : c # nForks' => children'[c] = children[c]]_vars

\* C14 witness: the entry was re-keyed by its first child, that child's exit
\* was handled, and a second runner was forked for the same entry
C14_Witness ==
    \E c1, c2 \in ChildIds :
        /\ children[c1].phase = "reaped"
        /\ children[c2].phase = "boot"
        /\ entries[children[c2].ent].registeredName = "X"
        /\ entries[children[c2].ent].child = c2
        /\ MapHas(services, "X")

\* C15: startService() on a Running service and stopService() on a service
\* that is not Running leave the whole instance as it was: status, startTime,
\* history, no hook invoked, no status notification, no error reported
C15_IllegalCallsAreNoOps ==
    [][/\ (callStartService /\ svc.status = RUNNING) => svc' = svc
       /\ (callStopService /\ svc.status # RUNNING) => svc' = svc]_vars

\* C15 witness: three calls were made, a stop while Stopped, a start, and a
\* start while Running; only the one start notified (twice) and ran a hook
C15_Witness ==
    /\ svc.status = RUNNING
    /\ nCalls = 3
    /\ svc.notified = 2
    /\ svc.pendStart = 0
    /\ svc.timeHistory = <<>>

\* C16: a failing start() hook ends startService() in FailedToStart with no
\* startTime recorded and the error reported; a failing stop() hook ends
\* stopService() in FailedToStop with nothing appended to the history and the
\* error reported
C16_HookFailureBecomesStatus ==
    [][/\ (startSettles(FALSE) \/ startReturns("rejects") \/ startReturns("throws"))
            => /\ svc'.status = FAILED_TO_START
               /\ svc'.startTime = svc.startTime
               /\ svc'.errors = svc.errors + 1
       /\ (stopSettles(FALSE) \/ stopReturns("rejects") \/ stopReturns("throws"))
            => /\ svc'.status = FAILED_TO_STOP
               /\ svc'.timeHistory = svc.timeHistory
               /\ svc'.errors = svc.errors + 1]_vars

\* C17: getTotalUptime() is the sum of the recorded intervals, plus the time
\* since startTime exactly when the status is Running
C17_TotalUptime ==
    TotalUptimeOf(svc, now) =
        SumHistory(svc.timeHistory)
          + (IF svc.status = RUNNING THEN now - svc.startTime ELSE 0)

\* C18: at every moment and in every status, getDowntime() + getTotalUptime()
\* equals getTotalTime()
C18_DowntimePlusUptime ==
    DowntimeOf(svc, now) + TotalUptimeOf(svc, now) = TotalTimeOf(svc, now)

\* C18 witness: a service of either class that ran, stopped and runs again,
\* with time spent down, up and running
C18_Witness ==
    /\ svc.status = RUNNING
    /\ Len(svc.timeHistory) = 1
    /\ svc.timeHistory[1].stop > svc.timeHistory[1].start
    /\ svc.timeHistory[1].start > svc.createdAt
    /\ now > svc.startTime

\* C19: loadService of a path that does not exist leaves the registry as it
\* was; loadService of any path forks no process and creates no service
C19_LoadOnlyRegisters ==
    [][\A p \in Paths :
         loadService(p) =>
            /\ children' = children /\ nForks' = nForks
            /\ svc' = svc /\ nCalls' = nCalls
            /\ timers' = timers /\ pendingRequests' = pendingRequests
            /\ p \in MissingPaths =>
                  /\ services' = services
                  /\ entries' = entries
                  /\ nEntries' = nEntries]_vars

\* C19 witness: both existing modules are registered, the missing one is
\* not, and nothing has been forked
C19_Witness ==
    /\ MapKeys(services) = {"a", "b"}
    /\ nForks = 0
    /\ \A c \in ChildIds : children[c].phase = "none"
    /\ svc = NewService(0)

\* C20: stopService on a registered entry without a child handle sends
\* nothing, arms no timer and leaves the registry and its entries as they were
C20_StopWithoutChildIsNoOp ==
    [][\A n \in OneNames :
         LET k == findEntryKey(services, entries, n) IN
         (stopService(n) /\ k # NoKey /\ ~HasChild(entries[MapGet(services, k)]))
            => /\ children' = children
               /\ timers' = timers
               /\ services' = services
               /\ entries' = entries]_vars

\* C20 witness: a registered entry whose runner has gone and whose handle is
\* cleared, with no timer armed
C20_Witness ==
    /\ Len(services) = 1
    /\ ~HasChild(entries[services[1].ent])
    /\ \E c \in ChildIds : children[c].phase = "reaped"
    /\ \A c \in ChildIds : ~Alive(c)
    /\ timers = {}

\* the runner c of an entry that is registered under the name c reported and
\* no longer under its file stem
ReKeyed(c) ==
    LET e == children[c].ent IN
    /\ Alive(c)
    /\ entries[e].child = c
    /\ entries[e].registeredName = ServiceName(children[c].path)
    /\ e \in MapEnts(services)
    /\ ~MapHas(services, Stem(entries[e].path))

StatusResponses(q) == SelectSeq(q, LAMBDA x : x.type = "statusResponse")

\* C22: the runner answers every getStatus message its handler takes with one
\* statusResponse that echoes the id and carries the name, the status and the
\* three times of the hosted service as they are at that moment; it sends a
\* statusResponse at no other step
C22_OneResponsePerGetStatus ==
    /\ [][\A c \in ChildIds :
            (runnerMessage(c) /\ Head(children[c].inbox).type = "getStatus")
               => LET sent == children'[c].outbox[Len(children'[c].outbox)]
                      hosted == children[c].svc
                  IN
                  /\ children'[c].outbox = Append(children[c].outbox, sent)
                  /\ sent.type = "statusResponse"
                  /\ sent.id = Head(children[c].inbox).id
                  /\ sent.payload.name = ServiceName(children[c].path)
                  /\ sent.payload.status = hosted.status
                  /\ sent.payload.uptime = TotalUptimeOf(hosted, now)
                  /\ sent.payload.downtime = DowntimeOf(hosted, now)
                  /\ sent.payload.timeSinceLoad = TotalTimeOf(hosted, now)
                  /\ children'[c].svc = hosted]_vars
    /\ [][\A c \in ChildIds :
            Len(StatusResponses(children'[c].outbox)) > Len(StatusResponses(children[c].outbox))
               => /\ runnerMessage(c)
                  /\ Head(children[c].inbox).type = "getStatus"
                  /\ Len(StatusResponses(children'[c].outbox))
                        = Len(StatusResponses(children[c].outbox)) + 1]_vars

\* C22 witness: a response on its way that reports a running service with
\* time spent up
C22_Witness ==
    \E c \in ChildIds :
        /\ children[c].outbox # <<>>
        /\ Head(children[c].outbox).type = "statusResponse"
        /\ Head(children[c].outbox).payload.status = RUNNING
        /\ Head(children[c].outbox).payload.uptime > 0
        /\ Head(children[c].outbox).payload.downtime > 0

\* the register messages in a child's outgoing channel
Registers(q) == SelectSeq(q, LAMBDA x : x.type = "register")

\* C23: a runner sends `register` at one step only, the step that
\* instantiates the service and enters startService(): that step sends one
\* `register` with the service's name, a process takes it at most once, and
\* nothing (no statusResponse) is sent before it
C23_RegisterOnceAtBoot ==
    /\ [][\A c \in ChildIds :
            run(c) => /\ children[c].outbox = <<>>
                      /\ children'[c].outbox =
                            <<UpMsg("register", ServiceName(children[c].path), NoId, NoPayload)>>
                      /\ children[c].svc = NoService
                      /\ children'[c].svc.createdAt = now
                      /\ children'[c].svc.status = STARTING
                      /\ children'[c].svc.startTime = NoTime]_vars
    /\ [][\A c \in ChildIds :
            Len(Registers(children'[c].outbox)) > Len(Registers(children[c].outbox))
               => /\ children[c].phase = "boot"
                  /\ children'[c].phase = "up"]_vars
    /\ [][\A c \in ChildIds :
            children[c].phase \in {"up", "dead", "reaped"} => children'[c].phase # "boot"]_vars
    /\ [](\A c \in ChildIds :
            /\ children[c].phase = "boot" => children[c].outbox = <<>>
            /\ \A i \in 1..Len(children[c].outbox) :
                  children[c].outbox[i].type = "register" => i = 1)

\* C23 witness: a runner's `register` is on its way, ahead of its first
\* statusResponse
C23_Witness ==
    \E c \in ChildIds :
        /\ children[c].phase = "up"
        /\ Len(children[c].outbox) = 2
        /\ children[c].outbox[1].type = "register"
        /\ children[c].outbox[1].name = ServiceName(children[c].path)
        /\ children[c].outbox[2].type = "statusResponse"

\* C24: a runner that gets SIGTERM/SIGINT calls stopService() once and is
\* gone in the same step, whatever the state of the service and with the
\* stop() hook still outstanding; a kill always ends a running process
C24_SignalStopsOnceAndExits ==
    /\ [][\A c \in ChildIds :
            (children[c].phase = "up" /\ children'[c].cause = "killed")
               => /\ children'[c].phase = "dead"
                  /\ children'[c].svc = stopServiceEnter(children[c].svc)
                  /\ children'[c].svc.pendStop <= children[c].svc.pendStop + 1
                  /\ children[c].svc.status = RUNNING
                        => /\ children'[c].svc.status = STOPPING
                           /\ children'[c].svc.pendStop > 0]_vars
    /\ [][\A t \in timers :
            (graceTimeout(t) /\ TimerTarget(t) # NoChild) => ~Alive(TimerTarget(t))']_vars

\* C24 witness: a runner killed while its service was running: the process
\* is gone and the stop() hook it called has not settled
C24_Witness ==
    \E c \in ChildIds :
        /\ children[c].phase = "dead"
        /\ children[c].cause = "killed"
        /\ children[c].svc.status = STOPPING
        /\ children[c].svc.pendStop = 1

\* C25: the history changes only at a stopService() whose stop() hook
\* succeeded, which appends the one interval (startTime, now) and sets the
\* status Stopped; every other step leaves the history as it was
C25_HistoryAppendOnly ==
    [][/\ (stopSettles(TRUE) \/ stopReturns("fulfils"))
            => /\ svc'.timeHistory =
                     Append(svc.timeHistory, [start |-> svc.startTime, stop |-> now])
               /\ svc'.status = STOPPED
       /\ ~(stopSettles(TRUE) \/ stopReturns("fulfils"))
            => svc'.timeHistory = svc.timeHistory]_vars

\* C26: a service that is Stopped after its first start and stop has one
\* history entry, and every history entry has a start that was recorded and
\* a stop later than its start
C26_IntervalsWellFormed ==
    /\ (svc.status = STOPPED /\ nCalls = 2 /\ svc.notified = 4) => Len(svc.timeHistory) = 1
    /\ \A i \in 1..Len(svc.timeHistory) :
          /\ svc.timeHistory[i].start # NoTime
          /\ svc.timeHistory[i].stop > svc.timeHistory[i].start

Unreaped(c) == children[c].phase \in {"boot", "up", "dead"}

\* C28: an entry of the registry has a child handle exactly while a process
\* forked for it has not had its exit event handled: the handle is that
\* process, every running process of the entry is its handle, and after the
\* exit event the handle is absent
C28_HandleIffLive ==
    \A e \in MapEnts(services) :
        /\ HasChild(entries[e])
              => /\ Unreaped(entries[e].child)
                 /\ children[entries[e].child].ent = e
        /\ \A c \in ChildIds :
              (Unreaped(c) /\ children[c].ent = e) => entries[e].child = c

\* C28 witness: an entry of the registry whose first runner is gone and
\* whose second runner is its handle and is running
C28_Witness ==
    \E e \in MapEnts(services), c1, c2 \in ChildIds :
        /\ children[c1].phase = "reaped"
        /\ entries[e].child = c2
        /\ children[c2].phase = "up"
        /\ children[c2].ent = e
        /\ children[c2].svc.status = STARTING

\* C29: startedAt of an entry is written only by the fork of its child, to
\* the time of the fork, and by the exit of that child, which clears it
C29_StartedAtIsForkTime ==
    [][\A e \in EntryIds :
          entries'[e].startedAt # entries[e].startedAt
             => \/ /\ ~HasChild(entries[e])
                   /\ HasChild(entries'[e])
                   /\ entries'[e].startedAt = now
                \/ /\ HasChild(entries[e])
                   /\ ~HasChild(entries'[e])
                   /\ entries'[e].startedAt = NoTime]_vars

\* C30: a send to a child whose process has died is a failure the calling
\* operation catches: none is left to surface as an 'error' event that
\* nothing listens for; a status query whose send failed is rejected at once
\* with its pending entry removed; a forwarded start whose send failed
\* leaves the registry and its entries as they were
C30_FailedSendIsCaught ==
    /\ [](~Crashed)
    /\ [](\A r \in ReqIds :
            (requests[r].state = "rejected" /\ requests[r].deadline = NoTime)
               => ~HasEntry(r) /\ requests[r].settles = 1)
    /\ [][\A n \in OneNames :
            LET k == findEntryKey(services, entries, n) IN
            (/\ startService(n)
             /\ k # NoKey
             /\ HasChild(entries[MapGet(services, k)])
             /\ ~Alive(entries[MapGet(services, k)].child))
               => services' = services /\ entries' = entries]_vars

\* process c is tracked: it is the child handle of an entry of the registry,
\* or of an entry for which a grace-period timer of removeService is armed
Tracked(c) ==
    \/ \E e \in MapEnts(services) : entries[e].child = c
    \/ \E t \in timers : t.kind = "shutdown" /\ entries[t.ent].child = c

\* C31: every running runner process is tracked: it is the child handle of an
\* entry of the registry, or its entry was unloaded and the grace-period kill
\* is armed for it; loading a path whose key holds an entry with a running
\* child keeps that handle in the registry
C31_LiveRunnerStaysTracked ==
    \A c \in ChildIds : Alive(c) => Tracked(c)

\* C32: an entry object that was created and is not in the registry (unload
\* removed it) is not put back by any step: only loadService adds to the
\* registry, and what it adds is a new entry; so it is when the `register`
\* message of the entry's child is handled after the unload
C32_UnloadedEntryStaysOut ==
    [][\A e \in EntryIds :
          (e <= nEntries /\ e \notin MapEnts(services))
             => e \notin MapEnts(services')]_vars

\* C33: handling the `register` message of child c leaves every pair of the
\* registry whose entry is not the one c was forked for in place, under its
\* key; so it is when the key c was forked under holds a newer entry
C33_RegisterTouchesOwnEntryOnly ==
    [][\A c \in ChildIds :
          (onMessage(c) /\ Head(children[c].outbox).type = "register")
             => \A i \in 1..Len(services) :
                   services[i].ent # children[c].ent
                      => /\ MapHas(services', services[i].key)
                         /\ MapGet(services', services[i].key) = services[i].ent]_vars

\* C34: in every state an entry object has startedAt set exactly when it has
\* a child handle
C34_StartedAtIffChild ==
    \A e \in EntryIds : (entries[e].startedAt # NoTime) <=> HasChild(entries[e])

\* C34 witness: the entry of the registry has had one child exit (handle and
\* time cleared), was started again, and its second child has ended without
\* the exit having been handled: handle and time are set
C34_Witness ==
    \E e \in MapEnts(services), c1, c2 \in ChildIds :
        /\ children[c1].phase = "reaped"
        /\ entries[e].child = c2
        /\ children[c2].phase = "dead"
        /\ entries[e].startedAt # NoTime

\* C35: an entry of the registry whose registeredName is set is stored under
\* that name, and under no other key
C35_StoredUnderRegisteredName ==
    \A i \in 1..Len(services) :
        LET v == entries[services[i].ent] IN
        v.registeredName # NoName
           => /\ services[i].key = v.registeredName
              /\ \A j \in 1..Len(services) : services[j].ent = services[i].ent => j = i

\* C35 witness: one entry is stored under its registered name while a second
\* entry, whose child reported the same name, has kept its file-stem key and
\* has no registered name
C35_Witness ==
    \E i, j \in 1..Len(services), c \in ChildIds :
        /\ entries[services[i].ent].registeredName = services[i].key
        /\ services[i].key = "X"
        /\ services[j].key = "b"
        /\ entries[services[j].ent].registeredName = NoName
        /\ children[c].ent = services[j].ent
        /\ children[c].phase = "up"
        /\ children[c].outbox = <<>>

\* C36: whatever the order of the startService()/stopService() calls and of
\* the settling of the hooks, the intervals of the history follow one another
\* in time without overlapping, the total uptime does not exceed the time
\* since the instance was created, and the downtime is not negative
C36_IntervalsDoNotOverlap ==
    /\ \A i, j \in 1..Len(svc.timeHistory) :
          i < j => svc.timeHistory[i].stop <= svc.timeHistory[j].start
    /\ TotalUptimeOf(svc, now) <= TotalTimeOf(svc, now)
    /\ DowntimeOf(svc, now) >= 0

\* C37: on one service instance the start() hook and the stop() hook are
\* never pending together, and at most one invocation of start() is pending
C37_HooksDoNotOverlap ==
    /\ ~(svc.pendStart > 0 /\ svc.pendStop > 0)
    /\ svc.pendStart <= 1

\* C38: when the runner ends its process in handling a control message, the
\* stop sequence of a service that was Running has finished at that point:
\* the service is Stopped, with the interval appended to its history, or
\* FailedToStop, and no stop() hook is left pending
C38_StopFinishedBeforeExit ==
    [][\A c \in ChildIds :
          (/\ runnerMessage(c)
           /\ children'[c].phase = "dead"
           /\ children[c].svc.status = RUNNING)
             => /\ children'[c].svc.status \in {STOPPED, FAILED_TO_STOP}
                /\ children'[c].svc.pendStop = 0
                /\ children'[c].svc.status = STOPPED
                      => Len(children'[c].svc.timeHistory)
                            = Len(children[c].svc.timeHistory) + 1]_vars

\* Status queries against the clock, with the scheduling the event loops
\* give: a timeout callback that is due runs, a message that has arrived is
\* handled, by the supervisor and by a runner that has booted, a runner
\* finishes its import, and the clock goes on while no timer is due.
FairStatus ==
    /\ \A r \in ReqIds : WF_vars(statusTimeout(r))
    /\ \A c \in ChildIds : WF_vars(onMessage(c))
    /\ \A c \in ChildIds : WF_vars(runnerMessage(c))
    /\ \A c \in ChildIds : WF_vars(run(c))
    /\ WF_vars(Tick)

SpecStatusLive == Init /\ [][NextStatus]_vars /\ FairStatus

\* C39: every status call that is pending is settled later and the entry of
\* that call has then left pendingRequests, and pendingRequests never holds
\* an entry of a call whose timeout has passed
C39_StatusCallSettles ==
    /\ \A r \in ReqIds :
          (requests[r].state = "pending")
             ~> (requests[r].state # "pending" /\ ~HasEntry(r))
    /\ [](\A p \in pendingRequests : now <= requests[p.req].deadline)

====
